---- MODULE Spec2Model ----
(***************************************************************************)
(* Comment threads, notifications and blog counters of src/server.js.      *)
(*                                                                         *)
(* Every store access (Mongoose save / findOne / findOneAndUpdate /        *)
(* findOneAndDelete) is one atomic step.  An access that a callback has    *)
(* issued and that has not completed yet is an element of the bag          *)
(* `pending`; the step that completes it also runs its .then callback up   *)
(* to the next store access.  A request handler that reads nothing before  *)
(* its first store access is merged with the completion of that access.    *)
(* A rejected promise nobody handles (a TypeError on a null document, a    *)
(* failed write without .catch) ends that promise chain and nothing else.  *)
(* Every access carries the request it descends from; a request is in      *)
(* flight until the last access it caused has completed, which is after    *)
(* its response for all three handlers.                                    *)
(***************************************************************************)
EXTENDS Integers, Sequences, FiniteSets, Bags, TLC

\* Bounds of the model: Comments saved and cascades started, with requests
\* overlapping (Conc...), with one request at a time (Seq...) and with one
\* request at a time from every identity and with every text (Auth...), and
\* /like-blog requests served.
ConcComments == 2
ConcDeletes == 2
SeqComments == 3
SeqDeletes == 2
AuthComments == 2
AuthDeletes == 1
MaxLikes == 3

\* Requests that can be in flight at the same time.
Requests == {1, 2}

\* Identities (req.user) and the one blog of the model with its author.
Users == {"a", "b"}
Author == "a"
TheBlog == "B"
\* Comment bodies a client can send (req.body.comment).
Texts == {"", "hi"}

\* 0 stands for an absent reference (undefined / null in the code).
None == 0

VARIABLES
    comments,       \* Comment collection: live _id -> document
    nextId,         \* the _id the store assigns to the next saved Comment
    notifications,  \* Notification collection: a bag of documents
    blog,           \* the Blog document: comments list and activity counters
    pending,        \* bag of store accesses issued and not yet completed
    responses,      \* HTTP responses sent so far
    deletes,        \* number of /delete-comment requests that started a cascade
    likes,          \* number of /like-blog requests served so far
    decremented,    \* history: bag of the Comment _ids the Blog was decremented for
    pre,            \* history: snapshot taken when a request starts
    failure         \* history: kind of the store access that failed, if any

vars == <<comments, nextId, notifications, blog, pending, responses,
          deletes, likes, decremented, pre, failure>>

stores == <<comments, notifications, blog>>

Live == DOMAIN comments

Quiescent == pending = EmptyBag

One(x) == SetToBag({x})

\* $pull: every occurrence of x leaves the array.
Pull(seq, x) == SelectSeq(seq, LAMBDA y : y # x)

Init ==
    /\ comments = [c \in {} |-> None]
    /\ nextId = 1
    /\ notifications = EmptyBag
    /\ blog = [comments |-> <<>>, total_comments |-> 0,
               total_parent_comments |-> 0, total_likes |-> 0]
    /\ pending = EmptyBag
    /\ responses = {}
    /\ deletes = 0
    /\ likes = 0
    /\ decremented = EmptyBag
    /\ pre = [kind |-> "none"]
    /\ failure = "none"

----
\* The store accesses a callback can leave in flight, each with the request
\* (req) it descends from.
BlogPushOp(req, id, replying_to) ==
    [op |-> "Blog.pushComment", req |-> req, id |-> id,
     replying_to |-> replying_to]
ParentPushOp(req, id, notificationObj) ==
    [op |-> "Comment.pushChild", req |-> req, id |-> id,
     notif |-> notificationObj]
NotificationSaveOp(req, notificationObj) ==
    [op |-> "Notification.save", req |-> req, notif |-> notificationObj]
DeleteOp(req, id) ==
    [op |-> "Comment.findOneAndDelete", req |-> req, id |-> id]
ParentPullOp(req, parent, id) ==
    [op |-> "Comment.pullChild", req |-> req, parent |-> parent, id |-> id]
NotificationDeleteOp(req, id) ==
    [op |-> "Notification.deleteByComment", req |-> req, id |-> id]
NotificationUnsetOp(req, id) ==
    [op |-> "Notification.unsetReply", req |-> req, id |-> id]
BlogPullOp(req, id, parent, children) ==
    [op |-> "Blog.pullComment", req |-> req, id |-> id, parent |-> parent,
     children |-> children]
LikeSaveOp(req, like, isLikedByUser) ==
    [op |-> "Like.save", req |-> req, notif |-> like,
     isLikedByUser |-> isLikedByUser]
LikeDeleteOp(req, user, isLikedByUser) ==
    [op |-> "Like.findOneAndDelete", req |-> req, user |-> user,
     isLikedByUser |-> isLikedByUser]

Ops(kind) == {o \in BagToSet(pending) : o.op = kind}

\* No access of request req is in flight.
Free(req) == \A o \in BagToSet(pending) : o.req # req

\* The request a newly arrived HTTP request becomes: the first free one.
NewRequest == CHOOSE r \in Requests : Free(r) /\ \A q \in Requests : Free(q) => r <= q

CanAccept == \E r \in Requests : Free(r)

----
\* POST /add-comment (src/server.js 537-589).

\* The document the Comment model stores for commentObj (548-555).
CommentDoc(user_id, blog_author, replying_to) ==
    [blog_id |-> TheBlog, blog_author |-> blog_author,
     commented_by |-> user_id, parent |-> replying_to,
     isReply |-> (replying_to # None), children |-> <<>>]

\* notificationObj as built at 566-577, before the parent lookup.
NotificationObj(user_id, blog_author, replying_to, id) ==
    [type |-> IF replying_to # None THEN "reply" ELSE "comment",
     blog |-> TheBlog, notification_for |-> blog_author, user |-> user_id,
     comment |-> id, replied_on_comment |-> replying_to, reply |-> None]

AddResponse(id) == [op |-> "add-comment", status |-> 200, id |-> id]
AddRejection == [op |-> "add-comment", status |-> 403, id |-> None]

\* The handler up to its first suspension after Comment.save() resolved:
\* the validation at 543-545, the save at 557, the Blog update issued at 561
\* and then either the awaited parent update issued at 578 or, for a
\* top-level comment, the Notification save issued at 583 and the response
\* sent at 585.
AddCommentReq(req, user_id, comment, blog_author, replying_to) ==
    IF Len(comment) = 0
    THEN /\ responses' = responses \cup {AddRejection}
         /\ UNCHANGED <<comments, nextId, notifications, blog, pending,
                        deletes, likes, decremented, failure>>
    ELSE /\ LET id == nextId
                notificationObj ==
                    NotificationObj(user_id, blog_author, replying_to, id)
            IN /\ comments' =
                    [c \in Live \cup {id} |->
                        IF c = id
                        THEN CommentDoc(user_id, blog_author, replying_to)
                        ELSE comments[c]]
               /\ nextId' = nextId + 1
               /\ IF replying_to # None
                  THEN /\ pending' = pending
                            (+) One(BlogPushOp(req, id, replying_to))
                            (+) One(ParentPushOp(req, id, notificationObj))
                       /\ UNCHANGED responses
                  ELSE /\ pending' = pending
                            (+) One(BlogPushOp(req, id, replying_to))
                            (+) One(NotificationSaveOp(req, notificationObj))
                       /\ responses' = responses \cup {AddResponse(id)}
         /\ UNCHANGED <<notifications, blog, deletes, likes, decremented,
                        failure>>

\* BlogAfterAdd with total_parent_comments incremented for replies too.
BlogAfterAdd_CountsReplies(b, id, replying_to) ==
    [b EXCEPT
       !.comments = Append(@, id),
       !.total_comments = @ + 1,
       !.total_parent_comments = @ + 1]

\* The update of 561 applied to the Blog document: $push comments, $inc.
BlogAfterAdd(b, id, replying_to) ==
    [b EXCEPT
       !.comments = Append(@, id),
       !.total_comments = @ + 1,
       !.total_parent_comments = @ + (IF replying_to # None THEN 0 ELSE 1)]

\* Blog.findOneAndUpdate of 561 completes.
BlogPushUpdate(o) ==
    /\ blog' = BlogAfterAdd(blog, o.id, o.replying_to)
    /\ pending' = pending (-) One(o)
    /\ UNCHANGED <<comments, nextId, notifications, responses, deletes,
                   likes, decremented, pre, failure>>

BlogPushStep == \E o \in Ops("Blog.pushComment") : BlogPushUpdate(o)

\* Comment.findOneAndUpdate of 578 completes and its .then (579) runs; the
\* handler resumes after the await: Notification save issued (583), response
\* sent (585).  A null document makes 579 throw a TypeError: the async
\* callback rejects, nothing after 581 runs.
ParentPushUpdate(o) ==
    LET replying_to == o.notif.replied_on_comment
    IN /\ IF replying_to \in Live
          THEN /\ comments' = [comments EXCEPT
                                 ![replying_to].children = Append(@, o.id)]
               /\ pending' = (pending (-) One(o)) (+)
                     One(NotificationSaveOp(o.req,
                         [o.notif EXCEPT !.notification_for =
                              comments[replying_to].commented_by]))
               /\ responses' = responses \cup {AddResponse(o.id)}
          ELSE /\ pending' = pending (-) One(o)
               /\ UNCHANGED <<comments, responses>>
       /\ UNCHANGED <<nextId, notifications, blog, deletes, likes,
                      decremented, pre, failure>>

ParentPushStep == \E o \in Ops("Comment.pushChild") : ParentPushUpdate(o)

\* new Notification(notificationObj).save() of 583 completes.
NotificationSave(o) ==
    /\ notifications' = notifications (+) One(o.notif)
    /\ pending' = pending (-) One(o)
    /\ UNCHANGED <<comments, nextId, blog, responses, deletes, likes,
                   decremented, pre, failure>>

NotificationSaveStep == \E o \in Ops("Notification.save") : NotificationSave(o)

----
\* POST /delete-comment (672-693) and deleteComments (643-670).

\* Authorized with the test of 681 left out.
Authorized_Anyone(user_id, comment) == TRUE

\* The permission test of 681.
Authorized(user_id, comment) ==
    user_id = comment.commented_by \/ user_id = comment.blog_author

DeleteResponse(id) == [op |-> "delete-comment", status |-> 200, id |-> id]
DeleteRejection(id) == [op |-> "delete-comment", status |-> 403, id |-> id]

\* Comment.findOne of 678 completes and its .then runs: a null document
\* makes 681 throw a TypeError nobody catches (no response is sent); an
\* authorized requester starts deleteComments (whose findOneAndDelete is
\* only issued at 683) and is answered {status: 'done'} at 685 at once.
DeleteCommentReq(req, _id, user_id) ==
    /\ IF _id \notin Live
       THEN UNCHANGED <<pending, responses, deletes>>
       ELSE IF Authorized(user_id, comments[_id])
       THEN /\ pending' = pending (+) One(DeleteOp(req, _id))
            /\ responses' = responses \cup {DeleteResponse(_id)}
            /\ deletes' = deletes + 1
       ELSE /\ responses' = responses \cup {DeleteRejection(_id)}
            /\ UNCHANGED <<pending, deletes>>
    /\ UNCHANGED <<comments, nextId, notifications, blog, likes,
                   decremented, failure>>

\* DeleteOps recursing into the first child only.
DeleteOps_FirstChildOnly(req, children) ==
    IF children = <<>> THEN EmptyBag
    ELSE One(DeleteOp(req, Head(children)))

\* deleteComments(replies) for every element of comment.children (660-662).
RECURSIVE DeleteOps(_, _)
DeleteOps(req, children) ==
    IF children = <<>> THEN EmptyBag
    ELSE One(DeleteOp(req, Head(children))) (+) DeleteOps(req, Tail(children))

\* The accesses issued at 647-657 for the document findOneAndDelete returned.
FollowUps(req, _id, comment) ==
    (IF comment.parent # None
     THEN One(ParentPullOp(req, comment.parent, _id))
     ELSE EmptyBag)
    (+) One(NotificationDeleteOp(req, _id))
    (+) One(NotificationUnsetOp(req, _id))
    (+) One(BlogPullOp(req, _id, comment.parent, comment.children))

\* DeleteComments going on to the Blog update when no document was found.
DeleteComments_IgnoresNull(o) ==
    /\ IF o.id \notin Live
       THEN /\ pending' = (pending (-) One(o))
                          (+) One(BlogPullOp(o.req, o.id, None, <<>>))
            /\ UNCHANGED comments
       ELSE /\ comments' = [c \in Live \ {o.id} |-> comments[c]]
            /\ pending' = (pending (-) One(o))
                          (+) FollowUps(o.req, o.id, comments[o.id])
    /\ UNCHANGED <<nextId, notifications, blog, responses, deletes, likes,
                   decremented, pre, failure>>

\* Comment.findOneAndDelete of 644 completes and its .then runs to 657: the
\* follow-up accesses are issued without waiting for one another.  A null
\* document makes 647 throw; the .catch of 667 logs it.
DeleteComments(o) ==
    /\ IF o.id \notin Live
       THEN /\ pending' = pending (-) One(o)
            /\ UNCHANGED comments
       ELSE /\ comments' = [c \in Live \ {o.id} |-> comments[c]]
            /\ pending' = (pending (-) One(o))
                          (+) FollowUps(o.req, o.id, comments[o.id])
    /\ UNCHANGED <<nextId, notifications, blog, responses, deletes, likes,
                   decremented, pre, failure>>

DeleteCommentsStep ==
    \E o \in Ops("Comment.findOneAndDelete") : DeleteComments(o)

\* Comment.findOneAndUpdate of 648 completes: $pull the id from the parent.
ParentPullUpdate(o) ==
    /\ comments' = IF o.parent \in Live
                   THEN [comments EXCEPT
                           ![o.parent].children = Pull(@, o.id)]
                   ELSE comments
    /\ pending' = pending (-) One(o)
    /\ UNCHANGED <<nextId, notifications, blog, responses, deletes, likes,
                   decremented, pre, failure>>

ParentPullStep == \E o \in Ops("Comment.pullChild") : ParentPullUpdate(o)

\* Notification.findOneAndDelete({ comment: _id }) of 653 completes: one
\* matching document, if any, is removed.
NotificationDelete(o) ==
    LET matching == {n \in BagToSet(notifications) : n.comment = o.id}
    IN /\ IF matching = {}
          THEN UNCHANGED notifications
          ELSE \E n \in matching : notifications' = notifications (-) One(n)
       /\ pending' = pending (-) One(o)
       /\ UNCHANGED <<comments, nextId, blog, responses, deletes, likes,
                      decremented, pre, failure>>

NotificationDeleteStep ==
    \E o \in Ops("Notification.deleteByComment") : NotificationDelete(o)

\* Notification.findOneAndUpdate({ reply: _id }, { $unset: { reply: 1 } })
\* of 655 completes: one matching document, if any, loses its reply field.
NotificationUnset(o) ==
    LET matching == {n \in BagToSet(notifications) : n.reply = o.id}
    IN /\ IF matching = {}
          THEN UNCHANGED notifications
          ELSE \E n \in matching :
                 notifications' = (notifications (-) One(n))
                                  (+) One([n EXCEPT !.reply = None])
       /\ pending' = pending (-) One(o)
       /\ UNCHANGED <<comments, nextId, blog, responses, deletes, likes,
                      decremented, pre, failure>>

NotificationUnsetStep ==
    \E o \in Ops("Notification.unsetReply") : NotificationUnset(o)

\* BlogAfterDelete with the $inc of total_comments left out.
BlogAfterDelete_KeepsTotal(b, _id, parent) ==
    [b EXCEPT
       !.comments = Pull(@, _id),
       !.total_parent_comments = IF parent # None THEN 0 ELSE -1]

\* The update document of 657 applied to the Blog document.  total_comments
\* is under $inc; "activity.total_parent_comments" is a key of the update
\* document itself, next to $pull and $inc, which Mongoose casts to a $set
\* of that value.
BlogAfterDelete(b, _id, parent) ==
    [b EXCEPT
       !.comments = Pull(@, _id),
       !.total_comments = @ - 1,
       !.total_parent_comments = IF parent # None THEN 0 ELSE -1]

\* Blog.findOneAndUpdate of 657 completes and its .then (658-664) starts
\* deleteComments for every child recorded on the deleted document.
BlogPullUpdate(o) ==
    /\ blog' = BlogAfterDelete(blog, o.id, o.parent)
    /\ decremented' = decremented (+) One(o.id)
    /\ pending' = (pending (-) One(o)) (+) DeleteOps(o.req, o.children)
    /\ UNCHANGED <<comments, nextId, notifications, responses, deletes,
                   likes, pre, failure>>

BlogPullStep == \E o \in Ops("Blog.pullComment") : BlogPullUpdate(o)

\* The accesses and callbacks of the two comment handlers.
CommentSteps ==
    \/ BlogPushStep
    \/ ParentPushStep
    \/ NotificationSaveStep
    \/ DeleteCommentsStep
    \/ ParentPullStep
    \/ NotificationDeleteStep
    \/ NotificationUnsetStep
    \/ BlogPullStep

----
\* POST /like-blog (484-519).

LikeNotification(user_id) ==
    [type |-> "like", blog |-> TheBlog, notification_for |-> Author,
     user |-> user_id, comment |-> None, replied_on_comment |-> None,
     reply |-> None]

LikeResponse(user_id, isLikedByUser, liked_by_user) ==
    [op |-> "like-blog", status |-> 200, user |-> user_id,
     isLikedByUser |-> isLikedByUser, liked_by_user |-> liked_by_user]

\* incrementVal of 490.
IncrementVal(isLikedByUser) == IF ~isLikedByUser THEN 1 ELSE -1

\* Blog.findOneAndUpdate of 492 completes and its .then runs: the branch of
\* 495 saves a like Notification when isLikedByUser is true and deletes one
\* when it is false.
LikeBlogReq(req, user_id, isLikedByUser) ==
    /\ blog' = [blog EXCEPT !.total_likes = @ + IncrementVal(isLikedByUser)]
    /\ pending' = pending (+)
          (IF isLikedByUser
           THEN One(LikeSaveOp(req, LikeNotification(user_id), isLikedByUser))
           ELSE One(LikeDeleteOp(req, user_id, isLikedByUser)))
    /\ likes' = likes + 1
    /\ UNCHANGED <<comments, nextId, notifications, responses, deletes,
                   decremented, pre, failure>>

\* like.save() of 504 completes; 505 answers liked_by_user: true.
LikeSave(o) ==
    /\ notifications' = notifications (+) One(o.notif)
    /\ responses' = responses \cup
                      {LikeResponse(o.notif.user, o.isLikedByUser, TRUE)}
    /\ pending' = pending (-) One(o)
    /\ UNCHANGED <<comments, nextId, blog, deletes, likes, decremented,
                   pre, failure>>

LikeSaveStep == \E o \in Ops("Like.save") : LikeSave(o)

\* Notification.findOneAndDelete({ user, blog, type: "like" }) of 509
\* completes: one matching document, if any, is removed; 511 answers
\* liked_by_user: false.
LikeDelete(o) ==
    LET matching == {n \in BagToSet(notifications) :
                        n.user = o.user /\ n.blog = TheBlog /\ n.type = "like"}
    IN /\ IF matching = {}
          THEN UNCHANGED notifications
          ELSE \E n \in matching : notifications' = notifications (-) One(n)
       /\ responses' = responses \cup
                         {LikeResponse(o.user, o.isLikedByUser, FALSE)}
       /\ pending' = pending (-) One(o)
       /\ UNCHANGED <<comments, nextId, blog, deletes, likes, decremented,
                      pre, failure>>

LikeDeleteStep == \E o \in Ops("Like.findOneAndDelete") : LikeDelete(o)

----
\* A store access of the cascade fails (its promise rejects): the .catch of
\* 650 or of 667 logs the error, or nobody handles the rejection (653, 655,
\* 657); in every case the .then of that access does not run.  At most one
\* access fails in a behaviour.
CascadeAccesses ==
    {"Comment.findOneAndDelete", "Comment.pullChild",
     "Notification.deleteByComment", "Notification.unsetReply",
     "Blog.pullComment"}

FailStep ==
    /\ failure = "none"
    /\ \E o \in BagToSet(pending) :
         /\ o.op \in CascadeAccesses
         /\ pending' = pending (-) One(o)
         /\ failure' = o.op
    /\ UNCHANGED <<comments, nextId, notifications, blog, responses, deletes,
                   likes, decremented, pre>>

----
\* Requests arriving while others are in flight, every store access
\* succeeding.  Identities play no part in how accesses interleave: here
\* every Comment is written by Commenter and deleted by the blog author.

\* replying_to of a request: nothing, or the id of a Comment saved earlier
\* (which may have been deleted since).
ParentInputs == 0..(nextId - 1)

Commenter == "b"

AddComment ==
    /\ CanAccept
    /\ nextId <= ConcComments
    /\ \E replying_to \in ParentInputs :
         AddCommentReq(NewRequest, Commenter, "hi", Author, replying_to)
    /\ UNCHANGED pre

DeleteComment ==
    /\ CanAccept
    /\ deletes < ConcDeletes
    /\ \E _id \in 1..(nextId - 1) :
         DeleteCommentReq(NewRequest, _id, Author)
    /\ UNCHANGED pre

Next ==
    \/ AddComment
    \/ DeleteComment
    \/ BlogPushStep
    \/ ParentPushStep
    \/ NotificationSaveStep
    \/ DeleteCommentsStep
    \/ ParentPullStep
    \/ NotificationDeleteStep
    \/ NotificationUnsetStep
    \/ BlogPullStep

Spec == Init /\ [][Next]_vars

----
\* One request at a time: a request arrives when no access is in flight.
\* `pre` keeps the request and the stores as they were when it arrived.

Snapshot(kind, id, user_id, comment, replying_to) ==
    [kind |-> kind, id |-> id, user |-> user_id, text |-> comment,
     replying_to |-> replying_to, comments |-> comments,
     notifications |-> notifications, blog |-> blog]

ArriveAdd(commenters, texts) ==
    /\ Quiescent
    /\ \E user_id \in commenters, comment \in texts,
          replying_to \in ParentInputs :
         /\ AddCommentReq(NewRequest, user_id, comment, Author, replying_to)
         /\ pre' = Snapshot("add", nextId, user_id, comment, replying_to)

ArriveDelete(requesters) ==
    /\ Quiescent
    /\ \E _id \in 1..(nextId - 1), user_id \in requesters :
         /\ DeleteCommentReq(NewRequest, _id, user_id)
         /\ pre' = Snapshot("delete", _id, user_id, "", None)

\* Comments by Commenter, deleted by the blog author.
SeqAddComment == nextId <= SeqComments /\ ArriveAdd({Commenter}, {"hi"})

SeqDeleteComment == deletes < SeqDeletes /\ ArriveDelete({Author})

SeqNext ==
    \/ SeqAddComment
    \/ SeqDeleteComment
    \/ BlogPushStep
    \/ ParentPushStep
    \/ NotificationSaveStep
    \/ DeleteCommentsStep
    \/ ParentPullStep
    \/ NotificationDeleteStep
    \/ NotificationUnsetStep
    \/ BlogPullStep

\* Every access issued to the store completes.
SeqSpec == Init /\ [][SeqNext]_vars /\ WF_vars(CommentSteps)

\* One request at a time, from any identity and with any text.
AuthAddComment == nextId <= AuthComments /\ ArriveAdd(Users, Texts)

AuthDeleteComment == deletes < AuthDeletes /\ ArriveDelete(Users)

AuthNext ==
    \/ AuthAddComment
    \/ AuthDeleteComment
    \/ BlogPushStep
    \/ ParentPushStep
    \/ NotificationSaveStep
    \/ DeleteCommentsStep
    \/ ParentPullStep
    \/ NotificationDeleteStep
    \/ NotificationUnsetStep
    \/ BlogPullStep

AuthSpec == Init /\ [][AuthNext]_vars

\* One request at a time, one access of a cascade failing.
FailNext ==
    \/ AuthAddComment
    \/ AuthDeleteComment
    \/ BlogPushStep
    \/ ParentPushStep
    \/ NotificationSaveStep
    \/ DeleteCommentsStep
    \/ ParentPullStep
    \/ NotificationDeleteStep
    \/ NotificationUnsetStep
    \/ BlogPullStep
    \/ FailStep

FailSpec == Init /\ [][FailNext]_vars

\* /like-blog requests arriving while others are in flight.
LikeBlog ==
    /\ CanAccept
    /\ likes < MaxLikes
    /\ \E user_id \in Users, isLikedByUser \in BOOLEAN :
         LikeBlogReq(NewRequest, user_id, isLikedByUser)

LikeNext ==
    \/ LikeBlog
    \/ LikeSaveStep
    \/ LikeDeleteStep

LikeSpec == Init /\ [][LikeNext]_vars

----
\* What the snapshot `pre` says about the request in flight or last served.

\* c is root or a reply below root, in the Comment collection cs.
RECURSIVE InSubtree(_, _, _)
InSubtree(cs, c, root) ==
    /\ c \in DOMAIN cs
    /\ \/ c = root
       \/ /\ cs[c].parent # None
          /\ InSubtree(cs, cs[c].parent, root)

\* The Comment a delete request named and its descendant replies, as they
\* were when the request arrived.
PreSubtree == {c \in DOMAIN pre.comments : InSubtree(pre.comments, c, pre.id)}

\* The last request was an add-comment with a non-empty text.
AddAccepted == pre.kind = "add" /\ pre.text # ""

\* The last request was a delete-comment of an existing Comment by its
\* commented_by or its blog_author.
DeleteAccepted ==
    /\ pre.kind = "delete"
    /\ pre.id \in DOMAIN pre.comments
    /\ \/ pre.user = pre.comments[pre.id].commented_by
       \/ pre.user = pre.comments[pre.id].blog_author

\* The last request was a delete-comment of an existing Comment by somebody
\* who is neither its commented_by nor its blog_author.
DeleteForbidden ==
    /\ pre.kind = "delete"
    /\ pre.id \in DOMAIN pre.comments
    /\ pre.user # pre.comments[pre.id].commented_by
    /\ pre.user # pre.comments[pre.id].blog_author

StoresAsBefore ==
    /\ comments = pre.comments
    /\ notifications = pre.notifications
    /\ blog = pre.blog

----
\* C1: once the writes of an add-comment with a non-empty text have
\* completed, total_comments is 1 higher than when the request arrived, and
\* total_parent_comments is 1 higher for a top-level comment and unchanged
\* for a reply.
C1_AddCommentCounters ==
    (Quiescent /\ AddAccepted) =>
        /\ blog.total_comments = pre.blog.total_comments + 1
        /\ blog.total_parent_comments =
               pre.blog.total_parent_comments
               + (IF pre.replying_to = None THEN 1 ELSE 0)

\* A reply to a live Comment has been added to a blog that already counted
\* a top-level comment, and all its writes are done.
C1_Witness ==
    /\ Quiescent
    /\ AddAccepted
    /\ pre.replying_to \in DOMAIN pre.comments
    /\ pre.blog.total_parent_comments >= 1
    /\ pre.id \in Live

\* C2: an authorized delete-comment of a Comment with N descendant replies,
\* served alone and with every access succeeding, reaches a state with no
\* access in flight where none of the N+1 Comments is in the Comment
\* collection and total_comments is N+1 lower than when it arrived.
C2_CascadeCompletes ==
    (DeleteAccepted /\ ~Quiescent) ~>
        (/\ Quiescent
         /\ DeleteAccepted
         /\ PreSubtree \cap Live = {}
         /\ blog.total_comments =
                pre.blog.total_comments - Cardinality(PreSubtree))

\* A cascade over a Comment with two direct replies has completed.
C2_Witness ==
    /\ Quiescent
    /\ DeleteAccepted
    /\ Len(pre.comments[pre.id].children) = 2
    /\ PreSubtree \cap Live = {}

\* C3: after an authorized delete-comment has completed,
\* total_parent_comments is 1 lower than before if the deleted Comment was
\* top-level and equal to its previous value if it was a reply.
C3_ParentCounterClaim ==
    (Quiescent /\ DeleteAccepted) =>
        blog.total_parent_comments =
            pre.blog.total_parent_comments
            - (IF pre.comments[pre.id].parent = None THEN 1 ELSE 0)

\* C4: an add-comment with an empty text, and a delete-comment of an
\* existing Comment by a requester who is neither its commented_by nor its
\* blog_author, are answered 403, issue no store access and leave the
\* Comment collection, the Notification collection and the Blog document as
\* they were.
C4_RejectedMutatesNothing ==
    /\ (pre.kind = "add" /\ pre.text = "") =>
           (AddRejection \in responses /\ Quiescent /\ StoresAsBefore)
    /\ DeleteForbidden =>
           (/\ DeleteRejection(pre.id) \in responses
            /\ DeleteResponse(pre.id) \notin responses
            /\ Quiescent
            /\ StoresAsBefore)

\* A delete-comment of a Comment that has a Notification was refused.
C4_Witness ==
    /\ DeleteForbidden
    /\ DeleteRejection(pre.id) \in responses
    /\ \E n \in BagToSet(notifications) : n.comment = pre.id

\* C5: the Blog counters are decremented at most once for a Comment, and a
\* deleteComments call that finds its Comment already removed (the second of
\* two delete-comment requests for one id, overlapping or not) changes no
\* collection.
C5_DeleteTwice ==
    [][/\ \A id \in BagToSet(decremented') : CopiesIn(id, decremented') <= 1
       /\ \A o \in Ops("Comment.findOneAndDelete") :
            (o.id \notin Live /\ DeleteComments(o)) =>
                UNCHANGED <<comments, notifications, blog>>]_vars

\* Two cascades were started for the only Comment ever saved; the first has
\* removed it and decremented the Blog, the second has not run yet.
C5_Witness ==
    /\ nextId = 2
    /\ deletes = 2
    /\ CopiesIn(1, decremented) = 1
    /\ \E o \in Ops("Comment.findOneAndDelete") : o.id = 1

\* C6: a like-blog request with isLikedByUser false is answered
\* liked_by_user true, one with isLikedByUser true is answered liked_by_user
\* false, and there is at most one like Notification per user and blog.
C6_ToggleLikeClaim ==
    /\ \A r \in responses :
         r.op = "like-blog" => r.liked_by_user = ~r.isLikedByUser
    /\ \A u \in Users : CopiesIn(LikeNotification(u), notifications) <= 1

\* C7: once the writes of an add-comment that saved a Comment have
\* completed, exactly one Notification has that Comment in its comment
\* field, of type comment for the blog author or of type reply, with the
\* parent in replied_on_comment, for the parent's commented_by when the
\* parent exists.
C7_NotificationClaim ==
    (Quiescent /\ AddAccepted) =>
        \E n \in BagToSet(notifications) :
            /\ n.comment = pre.id
            /\ CopiesIn(n, notifications) = 1
            /\ \A m \in BagToSet(notifications) : m.comment = pre.id => m = n
            /\ n.type = (IF pre.replying_to = None THEN "comment" ELSE "reply")
            /\ n.replied_on_comment = pre.replying_to
            /\ pre.replying_to = None => n.notification_for = Author
            /\ pre.replying_to \in DOMAIN pre.comments =>
                   n.notification_for =
                       pre.comments[pre.replying_to].commented_by

\* C8: when no access is in flight, no Notification has in its comment field
\* the id of a Comment that is no longer in the Comment collection.
C8_NoNotificationOfDeleted ==
    Quiescent =>
        \A n \in BagToSet(notifications) :
            n.comment = None \/ n.comment \in Live

\* C9: an add-comment that was answered 200 has saved its Comment, and a
\* delete-comment that was answered {status: 'done'} has removed its
\* Comment from the Comment collection.
C9_ResponseAfterWrite ==
    \A r \in responses :
        /\ (r.op = "add-comment" /\ r.status = 200) => r.id < nextId
        /\ (r.op = "delete-comment" /\ r.status = 200) => r.id \notin Live

\* C10: a cascade in which one access other than the removal of a Comment
\* failed still removes every Comment of the subtree.
C10_FailureDoesNotStop ==
    (/\ Quiescent
     /\ DeleteAccepted
     /\ failure \in CascadeAccesses \ {"Comment.findOneAndDelete"}) =>
        PreSubtree \cap Live = {}

\* C11: with requests overlapping and every access succeeding, once no
\* access is in flight total_comments equals the number of Comments in the
\* Comment collection.
C11_NoLostUpdate ==
    Quiescent => blog.total_comments = Cardinality(Live)

\* An add-comment and a delete-comment of the same Comment have overlapped
\* (its Notification was saved after the cascade looked for it), another
\* Comment is still stored, and nothing is in flight.
C11_Witness ==
    /\ Quiescent
    /\ Live # {}
    /\ \E n \in BagToSet(notifications) :
         n.comment # None /\ n.comment \notin Live

\* C12: when no access is in flight, isReply equals (parent is set) for
\* every Comment, the children of every Comment are exactly the stored
\* Comments whose parent it is, and no stored reply has a parent that is not
\* in the Comment collection.
C12_TreeInvariant ==
    Quiescent =>
        \A c \in Live :
            /\ comments[c].isReply = (comments[c].parent # None)
            /\ {comments[c].children[i] :
                   i \in 1..Len(comments[c].children)}
               = {r \in Live : comments[r].parent = c}
            /\ comments[c].parent # None => comments[c].parent \in Live

====
